---- MODULE Spec2Model ----
(***************************************************************************)
(* The selector-healing pipeline of the repository: the Selector Patcher   *)
(* (ui/runner/selector_updater.py), failure-log extraction and the two     *)
(* orchestrators (ui/run_demo.py, ui/cli.py), the server manager           *)
(* (ui/runner/server_launcher.py), DOM capture (ui/runner/dom_fetcher.py)  *)
(* and the mapping agent (ui/agents/selector_agent.py).                    *)
(*                                                                         *)
(* Text is modelled at token granularity: a source line is a sequence of   *)
(* tokens, the comma being one of them, so that str.split(',') and the     *)
(* syntax-tree scan are computed rather than assumed.  Confidences and     *)
(* similarity scores are exact rationals [n, d] (d > 0); floating-point    *)
(* rounding is not modelled.                                               *)
(***************************************************************************)
EXTENDS Integers, Sequences, FiniteSets, TLC

VARIABLES
    cfg,        \* the run's inputs: orchestrator, credential, the two DOMs
    pc,         \* position of the orchestrator
    srv,        \* ReactServerManager: tracked, launched and signalled processes
    browser,    \* browser sessions opened by DOMFetcher and those still open
    dom,        \* the two DOM snapshots' success flags
    fs,         \* the files: path -> [exists, lines]
    backups,    \* number of backup copies made under backups/
    sel_map,    \* selectors_to_map: name -> selector of the page object
    mapping,    \* mapping_results of the last batch_map_selectors call
    patch,      \* what the last batch_update_from_mapping call did
    log,        \* last_test_output
    fctx,       \* result of parse_failure_log_for_selector
    run,        \* first_heal_passed, final_test_passed, outcome, exit status
    hist,       \* history: stages entered, call counts, file after first heal
    pin,        \* inputs of a direct batch_update_from_mapping call
    pcalls      \* number of direct patcher calls made

(***************************************************************************)
(* Bounds of the model (not program constants).                            *)
(***************************************************************************)
MaxPatchCalls == 2

(***************************************************************************)
(* Rationals.                                                              *)
(***************************************************************************)
Rat(n, d) == [n |-> n, d |-> d]
RatGeq(a, b) == a.n * b.d >= b.n * a.d
RatGt(a, b) == a.n * b.d > b.n * a.d
RatEq(a, b) == a.n * b.d = b.n * a.d
RatMul(a, b) == [n |-> a.n * b.n, d |-> a.d * b.d]

(***************************************************************************)
(* Names and their order: inspect.getmembers returns members sorted by     *)
(* name, and dicts iterate in insertion order.                             *)
(***************************************************************************)
NameOrder == <<"A", "B">>
Names == {NameOrder[i] : i \in 1..Len(NameOrder)}
NameIdx(n) == CHOOSE i \in 1..Len(NameOrder) : NameOrder[i] = n

(***************************************************************************)
(* Tokens of a source line.                                                *)
(***************************************************************************)
Tok(t, v) == [t |-> t, v |-> v]
Comma == Tok("comma", ",")
Close == Tok("close", ")")
NL == Tok("nl", "\n")
Kind == Tok("kind", "By.CSS_SELECTOR")
Lhs(n) == Tok("lhs", n)          \* "    n = ("
AnnLhs(n) == Tok("annlhs", n)    \* "    n: tuple = ("
AttrLhs(n) == Tok("attrlhs", n)  \* "    cfg.n = ("
Lit(x) == Tok("lit", x)          \* 'x'
TLit(x) == Tok("tlit", x)        \* '''x'''
ClassHdr(c) == Tok("class", c)   \* "class c:"
Text(x) == Tok("text", x)        \* any other statement text without a comma
KindOpen == Tok("kindopen", "getattr(By")           \* a first element with a
KindRest == Tok("kindrest", " 'CSS_SELECTOR')")     \* comma inside it
Comment == Tok("comment", "  # note")               \* text after the tuple

(***************************************************************************)
(* SelectorUpdater._replace_selector_in_line                               *)
(***************************************************************************)
HasComma(line) == \E i \in 1..Len(line) : line[i] = Comma
FirstComma(line) ==
    CHOOSE i \in 1..Len(line) : line[i] = Comma /\ \A j \in 1..(i - 1) : line[j] # Comma

\* A variant without the len(parts) < 2 guard, for comparison.
ReplaceNoGuard(line, new_value) ==
    IF HasComma(line)
    THEN SubSeq(line, 1, FirstComma(line) - 1) \o <<Comma, TLit(new_value), Close, NL>>
    ELSE line \o <<Comma, TLit(new_value), Close, NL>>

\* A variant that switches the quoting style of the literal it finds, for
\* comparison.
ReplaceTogglingQuotes(line, new_value) ==
    IF ~HasComma(line) THEN line
    ELSE SubSeq(line, 1, FirstComma(line) - 1)
         \o <<Comma,
               IF \E k \in 1..Len(line) : line[k].t = "tlit" THEN Lit(new_value)
               ELSE TLit(new_value),
               Close, NL>>

ReplaceSelectorInLine(line, new_value) ==
    IF ~HasComma(line) THEN line
    ELSE SubSeq(line, 1, FirstComma(line) - 1) \o <<Comma, TLit(new_value), Close, NL>>

(***************************************************************************)
(* ast.parse on the token lines: the statements of the file, or failure.   *)
(***************************************************************************)
IsClassHdr(l) == Len(l) = 2 /\ l[1].t = "class" /\ l[2] = NL
IsText(l) == Len(l) = 2 /\ l[1].t = "text" /\ l[2] = NL
IsTarget(tok) == tok.t \in {"lhs", "annlhs", "attrlhs"}
StmtKind(tok) ==
    CASE tok.t = "lhs" -> "assign"
      [] tok.t = "annlhs" -> "ann"
      [] OTHER -> "attr"

\* Inside the parentheses a statement may run over several lines: it ends on
\* the first line, from its own on, that holds the closing parenthesis.
HasClose(l) == \E k \in 1..Len(l) : l[k] = Close
ClosingLine(lines, i) ==
    IF \E j \in i..Len(lines) : HasClose(lines[j])
    THEN CHOOSE j \in i..Len(lines) :
            HasClose(lines[j]) /\ \A k \in i..(j - 1) : ~HasClose(lines[k])
    ELSE 0

\* The tokens of lines i..j as one statement, the line ends inside the
\* parentheses dropped.
RECURSIVE Joined(_, _, _)
Joined(lines, i, j) ==
    IF i > j THEN <<>>
    ELSE (IF i < j THEN SelectSeq(lines[i], LAMBDA t : t # NL) ELSE lines[i])
         \o Joined(lines, i + 1, j)

\* The index of the last token of the tuple's first element.
FirstEnd(s) == IF s[2] = KindOpen THEN 4 ELSE 2

\* target = (first, 'selector')   with an optional trailing comment
IsTupleStmt(s) ==
    /\ Len(s) >= 6 /\ IsTarget(s[1])
    /\ Len(s) \in {FirstEnd(s) + 4, FirstEnd(s) + 5}
    /\ s[2] = Kind \/ (s[2] = KindOpen /\ s[3] = Comma /\ s[4] = KindRest)
    /\ s[FirstEnd(s) + 1] = Comma
    /\ s[FirstEnd(s) + 2].t \in {"lit", "tlit"}
    /\ s[FirstEnd(s) + 3] = Close
    /\ Len(s) = FirstEnd(s) + 5 => s[FirstEnd(s) + 4] = Comment
    /\ s[Len(s)] = NL

RECURSIVE ParseFrom(_, _, _, _)
ParseFrom(lines, i, cls, acc) ==
    IF i > Len(lines) THEN [ok |-> TRUE, stmts |-> acc]
    ELSE LET l == lines[i]
             j == ClosingLine(lines, i)
             s == Joined(lines, i, j)
         IN
        CASE IsClassHdr(l) -> ParseFrom(lines, i + 1, l[1].v, acc)
          [] IsText(l) -> ParseFrom(lines, i + 1, cls, acc)
          [] IsTarget(l[1]) /\ j # 0 /\ IsTupleStmt(s) ->
                ParseFrom(lines, j + 1, cls,
                    Append(acc, [kind |-> StmtKind(s[1]), name |-> s[1].v,
                                 lineno |-> i, cls |-> cls,
                                 first |-> SubSeq(s, 2, FirstEnd(s)),
                                 sel |-> s[FirstEnd(s) + 2].v]))
          [] OTHER -> [ok |-> FALSE, stmts |-> <<>>]

AstParse(lines) == ParseFrom(lines, 1, "", <<>>)

(***************************************************************************)
(* batch_update_from_mapping, lines 58-73: selector_lines, the line number *)
(* of each ast.Assign in the body of class Locators by its target's name;  *)
(* item.targets[0].id raises for a target that is not a plain name.        *)
(***************************************************************************)
IsLocatorsAssign(s) == s.cls = "Locators" /\ s.kind \in {"assign", "attr"}

\* A variant in which nothing is raised, for comparison.
LocateFailsNever(p, found) == FALSE

\* ast.parse raised (SyntaxError), or item.targets[0].id did (AttributeError):
\* both end in the handler of lines 72-73.
LocateFails(p, found) == ~p.ok \/ \E i \in found : p.stmts[i].kind = "attr"

LocateAssignments(lines) ==
    LET p == AstParse(lines)
        found == {i \in 1..Len(p.stmts) : IsLocatorsAssign(p.stmts[i])}
        names == {p.stmts[i].name : i \in found}
    IN  IF LocateFails(p, found)
        THEN [failed |-> TRUE, at |-> [n \in {} |-> 0]]
        ELSE [failed |-> FALSE,
              at |-> [n \in names |->
                        LET last == CHOOSE i \in found :
                                      /\ p.stmts[i].name = n
                                      /\ \A j \in found : p.stmts[j].name = n => j <= i
                        IN p.stmts[last].lineno]]

(***************************************************************************)
(* Paths.  A base name is a sequence of segments; the output path drops    *)
(* every "_v1" segment and appends "_v2".                                  *)
(***************************************************************************)
SrcPath == <<"page", "_v1">>
\* A variant that drops the "_v1" segments only, for comparison.
OutputPathStripOnly(base) == SelectSeq(base, LAMBDA s : s # "_v1")

OutputPath(base) == SelectSeq(base, LAMBDA s : s # "_v1") \o <<"_v2">>
AllPaths == {SrcPath, OutputPath(SrcPath)}

NoFile == [exists |-> FALSE, lines |-> <<>>]
FileOf(lines) == [exists |-> TRUE, lines |-> lines]

(***************************************************************************)
(* batch_update_from_mapping                                               *)
(***************************************************************************)
Match(orig, new, conf, why) ==
    [original_selector |-> orig, new_selector |-> new, confidence |-> conf, reasoning |-> why]

\* A variant of the filter that ignores the threshold, for comparison.
PassesFilterAnyConfidence(m, threshold) == m.new_selector # ""

\* A variant with a strict comparison (confidence > threshold), for comparison.
PassesFilterStrict(m, threshold) ==
    RatGt(m.confidence, threshold) /\ m.new_selector # ""

PassesFilter(m, threshold) ==
    RatGeq(m.confidence, threshold) /\ m.new_selector # ""

UpdatesToApply(mapping_results, threshold) ==
    {n \in DOMAIN mapping_results : PassesFilter(mapping_results[n], threshold)}

RewriteLines(lines, at, todo, mapping_results) ==
    [i \in 1..Len(lines) |->
        IF \E n \in todo \cap DOMAIN at : at[n] = i
        THEN LET n == CHOOSE n \in todo \cap DOMAIN at : at[n] = i
             IN ReplaceSelectorInLine(lines[i], mapping_results[n].new_selector)
        ELSE lines[i]]

\* A variant that never takes the early return, for comparison.
EarlyReturnNever(todo) == FALSE

\* if not updates_to_apply: return {"updates_applied": 0}
EarlyReturn(todo) == todo = {}

\* The result of one call: the files and backup count after it, the returned
\* dict (has_output says whether "output_file" is present), the names whose
\* line the loop assigned, and whether a file was written.
BatchUpdate(files, nbackups, file_path, mapping_results, threshold, create_new_version, backup_ok) ==
    LET todo == UpdatesToApply(mapping_results, threshold)
        lines == files[file_path].lines
        made == IF backup_ok /\ files[file_path].exists THEN nbackups + 1 ELSE nbackups
        loc == LocateAssignments(lines)
        hit == todo \cap DOMAIN loc.at
        output_path == IF create_new_version THEN OutputPath(file_path) ELSE file_path
    IN  IF EarlyReturn(todo)
        THEN [fs |-> files, backups |-> nbackups, has_output |-> FALSE,
              output_file |-> <<>>, updates_applied |-> 0, touched |-> {},
              wrote |-> FALSE, todo |-> todo]
        ELSE IF loc.failed
        THEN [fs |-> files, backups |-> made, has_output |-> FALSE,
              output_file |-> <<>>, updates_applied |-> 0, touched |-> {},
              wrote |-> FALSE, todo |-> todo]
        ELSE [fs |-> [files EXCEPT ![output_path] =
                        FileOf(RewriteLines(lines, loc.at, todo, mapping_results))],
              backups |-> made, has_output |-> TRUE, output_file |-> output_path,
              updates_applied |-> Cardinality(hit), touched |-> hit,
              wrote |-> TRUE, todo |-> todo]

(***************************************************************************)
(* Source files the model runs on.                                         *)
(***************************************************************************)
OneLine(n, x) == << <<Lhs(n), Kind, Comma, Lit(x), Close, NL>> >>
MultiLine(n, x) == << <<Lhs(n), NL>>, <<Kind, Comma, Lit(x), Close, NL>> >>
AnnLine(n, x) == << <<AnnLhs(n), Kind, Comma, Lit(x), Close, NL>> >>
AttrLine(n, x) == << <<AttrLhs(n), Kind, Comma, Lit(x), Close, NL>> >>
Header(c) == << <<ClassHdr(c), NL>> >>
Broken == << <<Lit("x"), Close, NL>> >>

OldSel(n) == "#old-" \o n

SourceFiles ==
    { Header("Locators") \o OneLine("A", OldSel("A")) \o OneLine("B", OldSel("B")),
      Header("Locators") \o MultiLine("A", OldSel("A")) \o OneLine("B", OldSel("B")),
      Header("Locators") \o OneLine("A", OldSel("A")) \o AnnLine("B", OldSel("B")),
      Header("Locators") \o OneLine("A", OldSel("A")) \o Header("Page") \o OneLine("B", OldSel("B")),
      Header("Locators") \o OneLine("A", OldSel("A")) \o AttrLine("B", OldSel("B")),
      Header("Locators") \o OneLine("A", OldSel("A")) \o Broken }

\* Further layouts of an assignment, used in direct calls of the patcher:
\* text after the tuple, the tuple broken after its first comma, and a first
\* element with a comma inside it.
CommentLine(n, x) == << <<Lhs(n), Kind, Comma, Lit(x), Close, Comment, NL>> >>
SplitAfterComma(n, x) == << <<Lhs(n), Kind, Comma, NL>>, <<Lit(x), Close, NL>> >>
CommaInFirst(n, x) == << <<Lhs(n), KindOpen, Comma, KindRest, Comma, Lit(x), Close, NL>> >>

LayoutFiles ==
    { << <<Text("from selenium.webdriver.common.by import By"), NL>> >>
        \o Header("Locators") \o CommentLine("A", OldSel("A")) \o OneLine("B", OldSel("B")),
      Header("Locators") \o SplitAfterComma("A", OldSel("A")) \o OneLine("B", OldSel("B")),
      Header("Locators") \o CommaInFirst("A", OldSel("A")) \o OneLine("B", OldSel("B")) }

(***************************************************************************)
(* get_selectors_from_module: the tuple-valued members of class Locators   *)
(* as the imported module shows them (plain and annotated assignments; a   *)
(* later assignment of a name overrides an earlier one), name -> tuple[1]. *)
(***************************************************************************)
IsLocatorsMember(s) == s.cls = "Locators" /\ s.kind \in {"assign", "ann"}

GetSelectorsFromModule(lines) ==
    LET p == AstParse(lines)
        found == {i \in 1..Len(p.stmts) : IsLocatorsMember(p.stmts[i])}
        names == {p.stmts[i].name : i \in found}
    IN  [n \in names |->
            LET last == CHOOSE i \in found :
                          /\ p.stmts[i].name = n
                          /\ \A j \in found : p.stmts[j].name = n => j <= i
            IN p.stmts[last].sel]

\* The module can be imported: it parses and assigns to plain names only.
Importable(lines) ==
    LET p == AstParse(lines)
    IN p.ok /\ \A i \in 1..Len(p.stmts) : p.stmts[i].kind # "attr"

(***************************************************************************)
(* parse_failure_log_for_selector.  A log is a sequence of lines, a line a *)
(* sequence of tokens: the marker "Unable to locate element: ", a field    *)
(* ' "selector": "x"' (with the blank the pattern asks for), or other text *)
(* (which includes a field written without the blank).                     *)
(***************************************************************************)
Marker == Tok("unable", "Unable to locate element: ")
Field(x) == Tok("field", x)
Other(x) == Tok("other", x)

\* re.search's match within one line: a marker followed, later on the line,
\* by a field; the greedy ".*" makes the captured field the last one.
LineMatches(line) ==
    \E i, j \in 1..Len(line) : i < j /\ line[i] = Marker /\ line[j].t = "field"

LastField(line) ==
    CHOOSE j \in 1..Len(line) :
        line[j].t = "field" /\ \A k \in (j + 1)..Len(line) : line[k].t # "field"

\* A variant capturing the first field of the line (a lazy '.*?'), for comparison.
FirstFieldCaptured(text) ==
    IF \E i \in 1..Len(text) : LineMatches(text[i])
    THEN LET i == CHOOSE i \in 1..Len(text) :
                    LineMatches(text[i]) /\ \A k \in 1..(i - 1) : ~LineMatches(text[k])
             line == text[i]
             j == CHOOSE j \in 1..Len(line) :
                    line[j].t = "field" /\ \A k \in 1..(j - 1) : line[k].t # "field"
         IN [found |-> TRUE, value |-> line[j].v]
    ELSE [found |-> FALSE, value |-> ""]

\* match.group(1) of the leftmost match in the whole log, if any.
Captured(text) ==
    IF \E i \in 1..Len(text) : LineMatches(text[i])
    THEN LET i == CHOOSE i \in 1..Len(text) :
                    LineMatches(text[i]) /\ \A k \in 1..(i - 1) : ~LineMatches(text[k])
         IN [found |-> TRUE, value |-> text[i][LastField(text[i])].v]
    ELSE [found |-> FALSE, value |-> ""]

NotFound == [called |-> TRUE, found |-> FALSE, selector_name |-> "", error_message |-> ""]
NotParsed == [called |-> FALSE, found |-> FALSE, selector_name |-> "", error_message |-> ""]
ErrorMessage(value) == "Test failed with NoSuchElementException for selector: " \o value

FirstName(S) == CHOOSE n \in S : \A m \in S : NameIdx(n) <= NameIdx(m)
LastName(S) == CHOOSE n \in S : \A m \in S : NameIdx(n) >= NameIdx(m)

\* A variant returning the last registered name instead of the first, for comparison.
ParseLastName(text, all_selectors) ==
    LET c == Captured(text)
        hits == {n \in DOMAIN all_selectors : all_selectors[n] = c.value}
    IN  IF ~c.found \/ hits = {} THEN NotFound
        ELSE [called |-> TRUE, found |-> TRUE, selector_name |-> LastName(hits),
              error_message |-> ErrorMessage(c.value)]

ParseFailureLogForSelector(text, all_selectors) ==
    LET c == Captured(text)
        hits == {n \in DOMAIN all_selectors : all_selectors[n] = c.value}
    IN  IF ~c.found \/ hits = {} THEN NotFound
        ELSE [called |-> TRUE, found |-> TRUE, selector_name |-> FirstName(hits),
              error_message |-> ErrorMessage(c.value)]

(***************************************************************************)
(* difflib.SequenceMatcher(None, a, b).ratio() on texts (sequences of      *)
(* characters): 2*M/T, M the total size of the matching blocks found by    *)
(* repeatedly taking the longest common block (earliest in a, then in b)   *)
(* and recursing to its left and right.  The autojunk heuristic, which     *)
(* only acts on texts of 200 characters or more, is outside the bounds.    *)
(***************************************************************************)
RECURSIVE MatchingSize(_, _)
MatchingSize(a, b) ==
    IF Len(a) = 0 \/ Len(b) = 0 THEN 0
    ELSE LET blocks == {x \in (1..Len(a)) \X (1..Len(b)) \X (1..Len(a)) :
                            /\ x[1] + x[3] - 1 <= Len(a)
                            /\ x[2] + x[3] - 1 <= Len(b)
                            /\ SubSeq(a, x[1], x[1] + x[3] - 1) = SubSeq(b, x[2], x[2] + x[3] - 1)}
         IN IF blocks = {} THEN 0
            ELSE LET best == CHOOSE x \in blocks : \A y \in blocks :
                                \/ y[3] < x[3]
                                \/ y[3] = x[3] /\ x[1] < y[1]
                                \/ y[3] = x[3] /\ x[1] = y[1] /\ x[2] <= y[2]
                 IN best[3]
                    + MatchingSize(SubSeq(a, 1, best[1] - 1), SubSeq(b, 1, best[2] - 1))
                    + MatchingSize(SubSeq(a, best[1] + best[3], Len(a)),
                                   SubSeq(b, best[2] + best[3], Len(b)))

Ratio(a, b) ==
    IF Len(a) + Len(b) = 0 THEN Rat(1, 1)
    ELSE Rat(2 * MatchingSize(a, b), Len(a) + Len(b))

(***************************************************************************)
(* SelectorAgent.  The old DOM is given by what each selector resolves to  *)
(* (found, text_content); the new DOM is its elements in document order,   *)
(* each [tag, testid, id, text], "" for an absent attribute.               *)
(***************************************************************************)
Elem(tag, testid, id, text) == [tag |-> tag, testid |-> testid, id |-> id, text |-> text]
Resolves(text) == [found |-> TRUE, text |-> text]
Unresolved == [found |-> FALSE, text |-> <<>>]

\* _extract_element_context
ExtractElementContext(old_dom, selector) ==
    IF selector \in DOMAIN old_dom THEN old_dom[selector] ELSE Unresolved

\* A variant without a floor, for comparison.
NoiseFloorNone == Rat(-1, 1)

\* if score > 0.3
NoiseFloor == Rat(3, 10)

\* The score of element i of the new DOM against the old text (0 when either
\* text is empty).
Score(old_text, new_dom, i) ==
    IF Len(old_text) > 0 /\ Len(new_dom[i].text) > 0
    THEN Ratio(old_text, new_dom[i].text)
    ELSE Rat(0, 1)

\* A variant admitting a score of exactly 0.3 (score >= 0.3), for comparison.
IsCandidateAtFloor(old_text, new_dom, i) == RatGeq(Score(old_text, new_dom, i), NoiseFloor)

IsCandidate(old_text, new_dom, i) == RatGt(Score(old_text, new_dom, i), NoiseFloor)

CandidateSet(old_text, new_dom) ==
    {i \in 1..Len(new_dom) : IsCandidate(old_text, new_dom, i)}

\* candidates.sort(key=score, reverse=True): stable, so ties keep document order.
Candidates(old_text, new_dom) ==
    LET S == CandidateSet(old_text, new_dom)
        Before(i, j) ==
            \/ RatGt(Score(old_text, new_dom, i), Score(old_text, new_dom, j))
            \/ RatEq(Score(old_text, new_dom, i), Score(old_text, new_dom, j)) /\ i < j
        ranked[T \in SUBSET S] ==
            IF T = {} THEN <<>>
            ELSE LET first == CHOOSE i \in T : \A j \in T \ {i} : Before(i, j)
                 IN  <<first>> \o ranked[T \ {first}]
    IN  ranked[S]

WeightTestId == Rat(9, 10)
\* A variant weighting an id like a test id, for comparison.
WeightIdAsTestId == Rat(9, 10)
WeightId == Rat(8, 10)
WeightTag == Rat(4, 10)

\* _fallback_mapping
FallbackMapping(old_selector, old_dom, new_dom) ==
    LET ctx == ExtractElementContext(old_dom, old_selector)
        cands == Candidates(ctx.text, new_dom)
        best == new_dom[cands[1]]
        score == Score(ctx.text, new_dom, cands[1])
    IN  IF ~ctx.found THEN Match(old_selector, "", Rat(0, 1), "Original element not found.")
        ELSE IF CandidateSet(ctx.text, new_dom) = {}
        THEN Match(old_selector, "", Rat(0, 1), "No similar element found.")
        ELSE IF best.testid # ""
        THEN Match(old_selector, "[data-testid='" \o best.testid \o "']",
                   RatMul(score, WeightTestId), "Fallback mapping.")
        ELSE IF best.id # ""
        THEN Match(old_selector, "#" \o best.id, RatMul(score, WeightId), "Fallback mapping.")
        ELSE Match(old_selector, best.tag, RatMul(score, WeightTag), "Fallback mapping.")

\* The language model's answer to one request: a JSON object that parses
\* (ok), or any failure of the call or of parsing it.
LLMFail == [ok |-> FALSE, new_selector |-> "", confidence |-> Rat(0, 1)]
LLMAnswer(s, c) == [ok |-> TRUE, new_selector |-> s, confidence |-> c]

\* A variant that gives up when the call fails, for comparison.
MapWithAIGivesUp(old_selector, old_dom, new_dom, failure_context, resp) ==
    LET ctx == ExtractElementContext(old_dom, old_selector)
    IN  IF ~ctx.found THEN Match(old_selector, "", Rat(0, 1), "Original element not found.")
        ELSE IF CandidateSet(ctx.text, new_dom) = {}
        THEN Match(old_selector, "", Rat(0, 1), "No similar element found.")
        ELSE IF resp.ok
        THEN Match(old_selector, resp.new_selector, resp.confidence, "LLM")
        ELSE Match(old_selector, "", Rat(0, 1), "LLM call failed.")

\* _map_with_ai, lines 80-98: the request is sent only once both early
\* returns have been passed.
AsksModel(old_selector, old_dom, new_dom) ==
    /\ ExtractElementContext(old_dom, old_selector).found
    /\ CandidateSet(ExtractElementContext(old_dom, old_selector).text, new_dom) # {}

\* _map_with_ai, resp being the model's answer if it is asked
MapWithAI(old_selector, old_dom, new_dom, failure_context, resp) ==
    LET ctx == ExtractElementContext(old_dom, old_selector)
    IN  IF ~ctx.found THEN Match(old_selector, "", Rat(0, 1), "Original element not found.")
        ELSE IF CandidateSet(ctx.text, new_dom) = {}
        THEN Match(old_selector, "", Rat(0, 1), "No similar element found.")
        ELSE IF resp.ok
        THEN Match(old_selector, resp.new_selector, resp.confidence, "LLM")
        ELSE FallbackMapping(old_selector, old_dom, new_dom)

\* A variant that hands the hint to every name, for comparison.
ContextForAnySelector(failure_context, name) ==
    IF failure_context.found THEN failure_context.error_message ELSE ""

\* batch_map_selectors, lines 124-128: the hint handed to one name's mapping
ContextForThisSelector(failure_context, name) ==
    IF failure_context.found /\ failure_context.selector_name = name
    THEN failure_context.error_message
    ELSE ""

\* A variant whose rule-based pass leaves out the name the hint is for, for
\* comparison.
BatchMapSelectorsDroppingHinted(selectors_to_map, old_dom, new_dom, failure_context, ai, llm) ==
    [n \in DOMAIN selectors_to_map |->
        IF ai
        THEN MapWithAI(selectors_to_map[n], old_dom, new_dom,
                       ContextForThisSelector(failure_context, n), llm[n])
        ELSE IF ContextForThisSelector(failure_context, n) # ""
        THEN Match(selectors_to_map[n], "", Rat(0, 1), "")
        ELSE FallbackMapping(selectors_to_map[n], old_dom, new_dom)]

\* batch_map_selectors; llm gives the model's answer per name
BatchMapSelectors(selectors_to_map, old_dom, new_dom, failure_context, ai, llm) ==
    [n \in DOMAIN selectors_to_map |->
        IF ai
        THEN MapWithAI(selectors_to_map[n], old_dom, new_dom,
                       ContextForThisSelector(failure_context, n), llm[n])
        ELSE FallbackMapping(selectors_to_map[n], old_dom, new_dom)]

\* The names for which batch_map_selectors sends a request to the model.
RequestsMade(selectors_to_map, old_dom, new_dom, ai) ==
    {n \in DOMAIN selectors_to_map :
        ai /\ AsksModel(selectors_to_map[n], old_dom, new_dom)}

\* _get_ai_prompt, candidates[:5]: the candidates listed in each request, by
\* their position in the new DOM.
PromptsSent(selectors_to_map, old_dom, new_dom, ai) ==
    [n \in RequestsMade(selectors_to_map, old_dom, new_dom, ai) |->
        LET c == Candidates(ExtractElementContext(old_dom, selectors_to_map[n]).text, new_dom)
        IN  SubSeq(c, 1, IF Len(c) < 5 THEN Len(c) ELSE 5)]

(***************************************************************************)
(* Inputs of a healing run.                                                *)
(***************************************************************************)
ImportableFiles == {f \in SourceFiles : Importable(f)}

TxtA == <<"a", "b">>
TxtB == <<"c", "d">>
TxtZ == <<"z", "z">>

OldDomBoth == (OldSel("A") :> Resolves(TxtA)) @@ (OldSel("B") :> Resolves(TxtB))
OldDomOnlyB == (OldSel("B") :> Resolves(TxtB))

DomCases ==
    { [old |-> OldDomBoth,
       new |-> <<Elem("button", "x", "", TxtA), Elem("div", "", "y", TxtB)>>],
      [old |-> OldDomBoth,
       new |-> <<Elem("button", "x", "", TxtA), Elem("span", "", "", TxtB)>>],
      [old |-> OldDomBoth,
       new |-> <<Elem("p", "", "", TxtZ)>>],
      [old |-> OldDomOnlyB,
       new |-> <<Elem("div", "", "y", TxtB)>>] }

LLMResponses ==
    {LLMFail, LLMAnswer("[data-testid='llm']", Rat(9, 10)), LLMAnswer(".alt", Rat(4, 10))}

\* What the test harness may print when a validation run fails.
LogOf(x) == << <<Other("Message: no such element: "), Marker, Other("{\"method\":\"css selector\","),
                 Field(x), Other("}")>> >>
RunLogs ==
    { << <<Other("AssertionError")>> >>,
      LogOf(OldSel("A")), LogOf(OldSel("B")), LogOf("[data-testid='x']") }

DefaultThreshold == Rat(5, 10)

Apps == {"react_v1", "react_v2"}

(***************************************************************************)
(* The state of a run.                                                     *)
(***************************************************************************)
NoMapping == [n \in {} |-> 0]
NoSelectors == [n \in {} |-> ""]
NoPatch ==
    [called |-> FALSE, has_output |-> FALSE, output_file |-> <<>>, updates_applied |-> 0,
     touched |-> {}, wrote |-> FALSE, todo |-> {}, pre |-> <<>>, located |-> {},
     failed |-> FALSE, mapping |-> NoMapping, threshold |-> DefaultThreshold,
     file_path |-> SrcPath, backed_up |-> FALSE]

\* The record kept of a call: its result without the files, plus its inputs.
PatchRecord(r, files, nbackups, file_path, mapping_results, threshold) ==
    [called |-> TRUE, has_output |-> r.has_output, output_file |-> r.output_file,
     updates_applied |-> r.updates_applied, touched |-> r.touched, wrote |-> r.wrote,
     todo |-> r.todo, pre |-> files[file_path].lines,
     located |-> DOMAIN LocateAssignments(files[file_path].lines).at,
     failed |-> LocateAssignments(files[file_path].lines).failed,
     mapping |-> mapping_results, threshold |-> threshold, file_path |-> file_path,
     backed_up |-> r.backups > nbackups]

NoRun ==
    [first_heal_passed |-> FALSE, final_test_passed |-> FALSE, outcome |-> "none",
     exit_code |-> 0]
NoHist ==
    [stages |-> <<>>, nMap |-> 0, nPatch |-> 0, nTest |-> 0, results |-> <<>>,
     heal1 |-> NoFile, hinted |-> {}, asked |-> {}, shown |-> NoMapping]
NoSrv == [processes |-> {}, launched |-> {}, signalled |-> {}, start_ok |-> TRUE]
NoBrowser == [opened |-> {}, open |-> {}]
NoDom == [v1 |-> "none", v2 |-> "none"]
NoPin ==
    [file_path |-> SrcPath, mapping |-> NoMapping, threshold |-> DefaultThreshold,
     create_new_version |-> FALSE]
NoCfg ==
    [impl |-> "none", use_ai |-> FALSE, old |-> OldDomBoth, new |-> <<>>,
     confidence_threshold |-> DefaultThreshold]

vars == <<cfg, pc, srv, browser, dom, fs, backups, sel_map, mapping, patch, log, fctx,
          run, hist, pin, pcalls>>

orchVars == <<cfg, pc, srv, browser, dom, run, hist>>
healVars == <<sel_map, mapping, log, fctx>>
fileVars == <<fs, backups, patch>>
unitVars == <<pin, pcalls>>

FilesWith(src) == [p \in AllPaths |-> IF p = SrcPath THEN FileOf(src) ELSE NoFile]

\* Source paths of direct calls, the paths their outputs go to, and a
\* directory holding just the source.
PatchPaths == {SrcPath, <<"page">>, <<"page", "_v2">>, <<"_v1", "page", "_v1">>}
UnitFiles(path, src) ==
    [p \in PatchPaths \cup {OutputPath(q) : q \in PatchPaths} |->
        IF p = path THEN FileOf(src) ELSE NoFile]

(***************************************************************************)
(* Direct calls of the patcher on bounded inputs.                          *)
(***************************************************************************)
PatchConfs == {Rat(0, 10), Rat(4, 10), Rat(5, 10), Rat(8, 10), Rat(9, 10)}
PatchThresholds == {Rat(5, 10), Rat(9, 10)}
PatchSelectors == {"", "#new"}

InitPatch ==
    /\ \E src \in SourceFiles \cup LayoutFiles, path \in PatchPaths, d \in SUBSET Names,
          t \in PatchThresholds, c \in BOOLEAN :
         \E s \in [d -> PatchSelectors], k \in [d -> PatchConfs] :
            /\ fs = UnitFiles(path, src)
            /\ pin = [file_path |-> path,
                      mapping |-> [n \in d |-> Match(OldSel(n), s[n], k[n], "")],
                      threshold |-> t, create_new_version |-> c]
    /\ backups = 0
    /\ pcalls = 0
    /\ patch = NoPatch
    /\ cfg = NoCfg /\ pc = "unit" /\ srv = NoSrv /\ browser = NoBrowser /\ dom = NoDom
    /\ run = NoRun /\ hist = NoHist
    /\ sel_map = NoSelectors /\ mapping = NoMapping /\ log = <<>> /\ fctx = NotParsed

PatchCall ==
    /\ pc = "unit"
    /\ pcalls < MaxPatchCalls
    /\ \E backup_ok \in BOOLEAN :
         LET r == BatchUpdate(fs, backups, pin.file_path, pin.mapping, pin.threshold,
                              pin.create_new_version, backup_ok)
         IN /\ fs' = r.fs
            /\ backups' = r.backups
            /\ patch' = PatchRecord(r, fs, backups, pin.file_path, pin.mapping, pin.threshold)
    /\ pcalls' = pcalls + 1
    /\ UNCHANGED <<pin, orchVars, healVars>>

NextPatch == PatchCall

SpecPatch == InitPatch /\ [][NextPatch]_vars

(***************************************************************************)
(* Direct calls of parse_failure_log_for_selector on bounded inputs.       *)
(***************************************************************************)
MaxLogLines == 2

LogLits == {OldSel("A"), OldSel("B"), "#gone"}
LogLineShapes ==
    { <<Other("AssertionError")>>, <<Marker, Other("{\"selector\":\"#old-A\"}")>> }
    \cup { <<Marker, Field(x)>> : x \in LogLits }
    \cup { <<Field(x), Marker>> : x \in LogLits }
    \cup { <<Marker, Field(p[1]), Field(p[2])>> :
                p \in {q \in LogLits \X LogLits : q[1] # q[2]} }
Logs == UNION { [1..k -> LogLineShapes] : k \in 0..MaxLogLines }
Tables == UNION { [d -> {OldSel("A"), OldSel("B")}] : d \in SUBSET Names }

InitParse ==
    /\ log \in Logs
    /\ sel_map \in Tables
    /\ fctx = NotParsed
    /\ mapping = NoMapping
    /\ fs = FilesWith(<<>>) /\ backups = 0 /\ patch = NoPatch
    /\ pin = NoPin /\ pcalls = 0
    /\ cfg = NoCfg /\ pc = "unit" /\ srv = NoSrv /\ browser = NoBrowser /\ dom = NoDom
    /\ run = NoRun /\ hist = NoHist

ParseCall ==
    /\ pc = "unit"
    /\ ~fctx.called
    /\ fctx' = ParseFailureLogForSelector(log, sel_map)
    /\ UNCHANGED <<sel_map, mapping, log, orchVars, fileVars, unitVars>>

NextParse == ParseCall

SpecParse == InitParse /\ [][NextParse]_vars

(***************************************************************************)
(* Direct calls of batch_map_selectors on bounded inputs: the DOM pairs of *)
(* a run and four more: one whose only new element scores exactly 0.3,    *)
(* one with elements without text, one where a weaker candidate comes      *)
(* first in the document and two elements (a wrapper and the element it    *)
(* wraps) share the best score, and one with six candidates.               *)
(***************************************************************************)
MapDomCases ==
    DomCases \cup
    { [old |-> (OldSel("B") :> Resolves(<<"a", "b", "c", "1", "2", "3", "4", "5", "6", "7">>)),
       new |-> <<Elem("div", "t", "", <<"a", "b", "c", "p", "q", "r", "s", "t", "u", "v">>)>>],
      [old |-> (OldSel("A") :> Resolves(<<>>)) @@ (OldSel("B") :> Resolves(TxtB)),
       new |-> <<Elem("span", "", "", <<>>), Elem("div", "", "y", TxtB)>>],
      [old |-> OldDomBoth,
       new |-> <<Elem("p", "", "lo", <<"c", "x", "y">>), Elem("span", "", "", TxtA),
                 Elem("button", "x", "", TxtA), Elem("div", "t", "y", TxtB)>>],
      [old |-> OldDomOnlyB,
       new |-> <<Elem("li", "", "", <<"c">>), Elem("p", "", "", <<"c", "x">>),
                 Elem("span", "", "", TxtB), Elem("a", "", "", <<"c", "d", "e">>),
                 Elem("div", "", "y", TxtB), Elem("b", "", "", <<"d">>)>>] }

InitMap ==
    /\ \E d \in MapDomCases, ai \in BOOLEAN :
         cfg = [impl |-> "none", use_ai |-> ai, old |-> d.old, new |-> d.new,
                confidence_threshold |-> DefaultThreshold]
    /\ \E t \in Tables, c \in {NotParsed} \cup
                              {[called |-> TRUE, found |-> TRUE, selector_name |-> n,
                                error_message |-> ErrorMessage(OldSel(n))] : n \in Names} :
         \* the last answer is a JSON object whose confidence is not a score:
         \* line 113 converts whatever number the model wrote
         \E a \in [DOMAIN t -> LLMResponses \cup {LLMAnswer("#sure", Rat(15, 10))}] :
            pin = [selectors_to_map |-> t, failure_context |-> c, llm |-> a]
    /\ pcalls = 0
    /\ mapping = NoMapping
    /\ fs = FilesWith(<<>>) /\ backups = 0 /\ patch = NoPatch
    /\ pc = "unit" /\ srv = NoSrv /\ browser = NoBrowser /\ dom = NoDom
    /\ run = NoRun /\ hist = NoHist
    /\ sel_map = NoSelectors /\ log = <<>> /\ fctx = NotParsed

MapCall ==
    /\ pc = "unit"
    /\ pcalls = 0
    /\ mapping' = BatchMapSelectors(pin.selectors_to_map, cfg.old, cfg.new,
                                    pin.failure_context, cfg.use_ai, pin.llm)
    /\ hist' = [hist EXCEPT
                  !.hinted = {n \in DOMAIN pin.selectors_to_map :
                                ContextForThisSelector(pin.failure_context, n) # ""},
                  !.asked = RequestsMade(pin.selectors_to_map, cfg.old, cfg.new, cfg.use_ai),
                  !.shown = PromptsSent(pin.selectors_to_map, cfg.old, cfg.new, cfg.use_ai)]
    /\ pcalls' = pcalls + 1
    /\ UNCHANGED <<cfg, pc, srv, browser, dom, run, pin, sel_map, log, fctx, fileVars>>

NextMap == MapCall

SpecMap == InitMap /\ [][NextMap]_vars

(***************************************************************************)
(* ReactServerManager                                                      *)
(***************************************************************************)
\* start_server's ways to end: the port already answers (True, nothing is
\* launched); no package.json or Popen raising (False, nothing tracked); the
\* process is launched and tracked and the server answers in time (True) or
\* not (False).
StartOutcomes == {"port_in_use", "not_started", "ready", "timed_out"}
StartReturns(o) == o \in {"port_in_use", "ready"}
StartTracks(o) == o \in {"ready", "timed_out"}

StartServerOn(s, app, o) ==
    [s EXCEPT !.processes = IF StartTracks(o) THEN @ \cup {app} ELSE @,
              !.launched = IF StartTracks(o) THEN @ \cup {app} ELSE @,
              !.start_ok = @ /\ StartReturns(o)]

\* stop_server's ways to end for a tracked process: terminated in time; wait
\* timed out and the group was killed; signalling raised (generic handler,
\* returns False); the kill inside the TimeoutExpired handler raised, which
\* leaves stop_server and stop_all_servers as an exception.
StopOutcomes == {"stopped", "killed", "error", "kill_raised"}
StopRaises(o) == o = "kill_raised"

\* A variant that drops the process from the table on every path, for comparison.
StopServerForgetsOnError(s, app, o) ==
    IF app \notin s.processes THEN s
    ELSE [s EXCEPT !.processes = @ \ {app},
                   !.signalled = IF o = "error" THEN @ ELSE @ \cup {app}]

StopServerOn(s, app, o) ==
    IF app \notin s.processes THEN s
    ELSE [s EXCEPT !.processes = IF o \in {"stopped", "killed"} THEN @ \ {app} ELSE @,
                   !.signalled = IF o = "error" THEN @ ELSE @ \cup {app}]

(***************************************************************************)
(* DOMFetcher used as a context manager around one fetch_dom call.         *)
(***************************************************************************)
\* setup_driver succeeds or raises; fetch_dom returns success=True, returns
\* success=False (TimeoutException, WebDriverException), or lets another
\* exception through; close() quits the driver, or quit() raises, which is
\* swallowed and may leave the session open.
InitOutcomes == {"ok", "raise"}
FetchOutcomes == {"ok", "fail", "raise"}
CloseOutcomes == {"closed", "left_open"}

(***************************************************************************)
(* run_command: exit status 0, or failure with the captured output.  The   *)
(* output of a run is kept only where it is read (line 122).               *)
(***************************************************************************)
RunResults == {[ok |-> TRUE, out |-> <<>>]} \cup {[ok |-> FALSE, out |-> l] : l \in RunLogs}
RunResultsUnread == {[ok |-> TRUE, out |-> <<>>], [ok |-> FALSE, out |-> <<>>]}

(***************************************************************************)
(* The two orchestrators: run_demo.main ("demo") and                       *)
(* HealingOrchestrator.run_healing_process ("cli").                        *)
(***************************************************************************)
Enter(h, stage) == [h EXCEPT !.stages = Append(@, stage)]

\* A variant in which leaving the try block ends the run at once, for comparison.
FinallySkipped == "done"

\* Where control goes when the try block is left, normally or not: the
\* finally block, whose first statement is stop_all_servers.
Finally == "stop_v1"

\* An exception inside the try block (demo: except prints and calls
\* sys.exit(1); cli: except returns False), or cli's "return False".
Failed(r) ==
    IF cfg.impl = "demo" THEN [r EXCEPT !.outcome = "aborted", !.exit_code = 1]
    ELSE [r EXCEPT !.outcome = "failure"]

Init ==
    /\ \E i \in {"demo", "cli"}, ai \in BOOLEAN, d \in DomCases, t \in PatchThresholds :
         \* heal --confidence-threshold; run_demo has no such setting
         /\ i = "demo" => t = DefaultThreshold
         /\ cfg = [impl |-> i, use_ai |-> ai, old |-> d.old, new |-> d.new,
                   confidence_threshold |-> t]
    /\ \E src \in ImportableFiles : fs = FilesWith(src)
    /\ pc = "start_v1"
    /\ srv = NoSrv /\ browser = NoBrowser /\ dom = NoDom
    /\ backups = 0 /\ patch = NoPatch
    /\ sel_map = NoSelectors /\ mapping = NoMapping /\ log = <<>> /\ fctx = NotParsed
    /\ run = NoRun /\ hist = NoHist
    /\ pin = NoPin /\ pcalls = 0

\* start_all_servers, one iteration of its loop per step
StartServer(app, here, next) ==
    /\ pc = here
    /\ \E o \in StartOutcomes :
         LET s == StartServerOn(srv, app, o)
         IN /\ srv' = s
            /\ IF next = "baseline" /\ ~s.start_ok
               THEN pc' = Finally /\ run' = Failed(run)
               ELSE pc' = next /\ run' = run
    /\ hist' = IF here = "start_v1" THEN Enter(hist, "servers") ELSE hist
    /\ UNCHANGED <<cfg, browser, dom, healVars, fileVars, unitVars>>

StartV1 == StartServer("react_v1", "start_v1", "start_v2")
StartV2 == StartServer("react_v2", "start_v2", "baseline")

\* A variant without the baseline gate, for comparison.
BaselineGateOpen(ok) == TRUE

\* if not run_command(...): raise RuntimeError (cli: return False)
BaselineGate(ok) == ok

\* step 2: the tests on the old version must pass
Baseline ==
    /\ pc = "baseline"
    /\ \E r \in RunResultsUnread :
         /\ log' = r.out
         /\ hist' = [Enter(hist, "baseline") EXCEPT !.nTest = @ + 1, !.results = Append(@, r.ok)]
         /\ IF BaselineGate(r.ok)
            THEN pc' = "detect" /\ run' = run
            ELSE pc' = Finally /\ run' = Failed(run)
    /\ UNCHANGED <<cfg, srv, browser, dom, sel_map, mapping, fctx, fileVars, unitVars>>

\* A variant without the regression gate, for comparison.
RegressionGateOpen(ok) == TRUE

\* if run_command(...): raise RuntimeError (cli: return False)
RegressionGate(ok) == ~ok

\* step 3: the tests on the new version must fail
Detect ==
    /\ pc = "detect"
    /\ \E r \in RunResultsUnread :
         /\ log' = r.out
         /\ hist' = [Enter(hist, "detect") EXCEPT !.nTest = @ + 1, !.results = Append(@, r.ok)]
         /\ IF RegressionGate(r.ok)
            THEN pc' = "dom_v1" /\ run' = run
            ELSE pc' = Finally /\ run' = Failed(run)
    /\ UNCHANGED <<cfg, srv, browser, dom, sel_map, mapping, fctx, fileVars, unitVars>>

\* step 4: "with DOMFetcher() as fetcher: dom = fetcher.fetch_dom(url)"
FetchDom(v, here, next) ==
    /\ pc = here
    /\ \E i \in InitOutcomes, f \in FetchOutcomes, c \in CloseOutcomes :
         /\ i = "raise" => f = "ok" /\ c = "closed"
         /\ browser' = IF i = "raise" THEN browser
                       ELSE [opened |-> browser.opened \cup {v},
                             open |-> IF c = "left_open" THEN browser.open \cup {v}
                                      ELSE browser.open]
         /\ dom' = IF i = "raise" \/ f = "raise" THEN dom
                   ELSE [dom EXCEPT ![v] = IF f = "ok" THEN "ok" ELSE "failed"]
         /\ IF i = "raise" \/ f = "raise"
            THEN pc' = Finally /\ run' = Failed(run)
            ELSE pc' = next /\ run' = run
    /\ hist' = Enter(hist, here)
    /\ UNCHANGED <<cfg, srv, healVars, fileVars, unitVars>>

FetchV1 == FetchDom("v1", "dom_v1", "dom_v2")
FetchV2 == FetchDom("v2", "dom_v2", "dom_check")

\* A variant content with one successful snapshot, for comparison.
DomsGateEither(d) == d.v1 = "ok" \/ d.v2 = "ok"

\* dom_v1.get("success") and dom_v2.get("success")
DomsGate(d) == d.v1 = "ok" /\ d.v2 = "ok"

CheckDoms ==
    /\ pc = "dom_check"
    /\ IF DomsGate(dom)
       THEN pc' = "map1" /\ run' = run
       ELSE pc' = Finally /\ run' = Failed(run)
    /\ UNCHANGED <<cfg, srv, browser, dom, hist, healVars, fileVars, unitVars>>

\* batch_map_selectors on the page object's selectors; the first pass also
\* imports the page object and reads its selectors
MapSelectors(here, next) ==
    /\ pc = here
    /\ LET sels == IF here = "map1" THEN GetSelectorsFromModule(fs[SrcPath].lines)
                   ELSE sel_map
           hint == IF here = "map1" THEN NotParsed ELSE fctx
       IN /\ sel_map' = sels
          /\ \E llm \in [DOMAIN sels -> LLMResponses] :
               /\ ~cfg.use_ai => \A n \in DOMAIN sels : llm[n] = LLMFail
               /\ mapping' = BatchMapSelectors(sels, cfg.old, cfg.new, hint, cfg.use_ai, llm)
          /\ hist' = [Enter(hist, "map") EXCEPT
                        !.nMap = @ + 1,
                        !.hinted = {n \in DOMAIN sels : ContextForThisSelector(hint, n) # ""},
                        !.asked = RequestsMade(sels, cfg.old, cfg.new, cfg.use_ai),
                        !.shown = PromptsSent(sels, cfg.old, cfg.new, cfg.use_ai)]
    /\ pc' = next
    /\ UNCHANGED <<cfg, srv, browser, dom, run, log, fctx, fileVars, unitVars>>

Map1 == MapSelectors("map1", "patch1")
Map2 == MapSelectors("map2", "patch2")

\* A variant without the quality gate, for comparison.
QualityGateOpen(applied) == TRUE

\* the quality gate: updates_info['updates_applied'] < 1 aborts
QualityGate(applied) == applied >= 1

\* step 5: the first patch, then the quality gate
Patch1 ==
    /\ pc = "patch1"
    /\ \E backup_ok \in BOOLEAN :
         LET r == BatchUpdate(fs, backups, SrcPath, mapping, DefaultThreshold, TRUE, backup_ok)
         IN /\ fs' = r.fs
            /\ backups' = r.backups
            /\ patch' = PatchRecord(r, fs, backups, SrcPath, mapping, DefaultThreshold)
            /\ hist' = [Enter(hist, "patch") EXCEPT
                          !.nPatch = @ + 1, !.heal1 = r.fs[OutputPath(SrcPath)]]
            /\ IF QualityGate(r.updates_applied)
               THEN pc' = "validate1" /\ run' = run
               ELSE pc' = Finally /\ run' = Failed(run)
    /\ UNCHANGED <<cfg, srv, browser, dom, healVars, unitVars>>

\* step 6: the tests on the new version with the patched page object
Validate1 ==
    /\ pc = "validate1"
    /\ \E r \in RunResults :
         /\ log' = r.out
         /\ hist' = [Enter(hist, "validate") EXCEPT !.nTest = @ + 1, !.results = Append(@, r.ok)]
         /\ run' = [run EXCEPT !.first_heal_passed = r.ok, !.final_test_passed = r.ok]
         /\ pc' = IF r.ok \/ cfg.impl = "cli" THEN "report" ELSE "extract"
    /\ UNCHANGED <<cfg, srv, browser, dom, sel_map, mapping, fctx, fileVars, unitVars>>

\* A variant that retries whatever the extraction returned, for comparison.
RetryGateOpen(c) == TRUE

\* if failure_context: an empty dict is falsy
RetryGate(c) == c.found

\* step 7: failure analysis of the captured log
Extract ==
    /\ pc = "extract"
    /\ LET c == ParseFailureLogForSelector(log, sel_map)
       IN /\ fctx' = c
          /\ pc' = IF RetryGate(c) THEN "map2" ELSE "report"
    /\ hist' = Enter(hist, "extract")
    /\ UNCHANGED <<cfg, srv, browser, dom, run, sel_map, mapping, log, fileVars, unitVars>>

\* step 7b: the second patch; its result is not looked at
Patch2 ==
    /\ pc = "patch2"
    /\ \E backup_ok \in BOOLEAN :
         LET r == BatchUpdate(fs, backups, SrcPath, mapping, DefaultThreshold, TRUE, backup_ok)
         IN /\ fs' = r.fs
            /\ backups' = r.backups
            /\ patch' = PatchRecord(r, fs, backups, SrcPath, mapping, DefaultThreshold)
    /\ hist' = [Enter(hist, "patch") EXCEPT !.nPatch = @ + 1]
    /\ pc' = "validate2"
    /\ UNCHANGED <<cfg, srv, browser, dom, run, healVars, unitVars>>

\* A variant that goes back to mapping after a failed second validation, for comparison.
Validate2Retry ==
    /\ pc = "validate2"
    /\ \E r \in RunResultsUnread :
         /\ log' = r.out
         /\ hist' = [Enter(hist, "validate") EXCEPT !.nTest = @ + 1, !.results = Append(@, r.ok)]
         /\ run' = [run EXCEPT !.final_test_passed = r.ok]
         /\ pc' = IF r.ok \/ hist.nTest >= 6 THEN "report" ELSE "map2"
    /\ UNCHANGED <<cfg, srv, browser, dom, sel_map, mapping, fctx, fileVars, unitVars>>

\* step 7c: the final validation
Validate2 ==
    /\ pc = "validate2"
    /\ \E r \in RunResultsUnread :
         /\ log' = r.out
         /\ hist' = [Enter(hist, "validate") EXCEPT !.nTest = @ + 1, !.results = Append(@, r.ok)]
         /\ run' = [run EXCEPT !.final_test_passed = r.ok]
    /\ pc' = "report"
    /\ UNCHANGED <<cfg, srv, browser, dom, sel_map, mapping, fctx, fileVars, unitVars>>

\* the final banner (demo) or the returned flag (cli)
Report ==
    /\ pc = "report"
    /\ run' = [run EXCEPT !.outcome = IF run.final_test_passed THEN "success" ELSE "failure"]
    /\ pc' = Finally
    /\ UNCHANGED <<cfg, srv, browser, dom, hist, healVars, fileVars, unitVars>>

\* finally: stop_all_servers, one iteration of its loop per step
StopServer(app, here, next) ==
    /\ pc = here
    /\ \E o \in StopOutcomes :
         /\ app \notin srv.processes => o = "stopped"
         /\ srv' = StopServerOn(srv, app, o)
         /\ IF app \in srv.processes /\ StopRaises(o)
            THEN pc' = "done" /\ run' = [run EXCEPT !.exit_code = 1]
            ELSE pc' = next /\ run' = run
    /\ hist' = IF here = "stop_v1" THEN Enter(hist, "cleanup") ELSE hist
    /\ UNCHANGED <<cfg, browser, dom, healVars, fileVars, unitVars>>

StopV1 == StopServer("react_v1", "stop_v1", "stop_v2")
StopV2 == StopServer("react_v2", "stop_v2", "done")

Next ==
    \/ StartV1 \/ StartV2 \/ Baseline \/ Detect \/ FetchV1 \/ FetchV2 \/ CheckDoms
    \/ Map1 \/ Patch1 \/ Validate1 \/ Extract \/ Map2 \/ Patch2 \/ Validate2 \/ Report
    \/ StopV1 \/ StopV2

Spec == Init /\ [][Next]_vars

(***************************************************************************)
(* Claims.                                                                 *)
(***************************************************************************)
Cleaning == pc \in {"stop_v1", "stop_v2", "done"}
Entered(stage) == \E k \in 1..Len(hist.stages) : hist.stages[k] = stage
OutFile == fs[OutputPath(SrcPath)]

\* C1: in batch_update_from_mapping, a name located in class Locators has its
\* line rewritten (replaced by what _replace_selector_in_line returns for the
\* new selector, in the written file) exactly when its match has confidence
\* >= the threshold, the boundary included, and a non-empty new_selector; the
\* line of any other located name is not touched and is written unchanged.
C1_FilterDecidesRewrite ==
    patch.called =>
        \A n \in patch.located :
            LET i == LocateAssignments(patch.pre).at[n]
                t == patch.threshold
                passes == /\ n \in DOMAIN patch.mapping
                          /\ patch.mapping[n].confidence.n * t.d >= t.n * patch.mapping[n].confidence.d
                          /\ patch.mapping[n].new_selector # ""
            IN  IF passes
                THEN /\ n \in patch.touched
                     /\ patch.wrote
                     /\ fs[patch.output_file].lines[i]
                          = ReplaceSelectorInLine(patch.pre[i], patch.mapping[n].new_selector)
                ELSE /\ n \notin patch.touched
                     /\ patch.wrote => fs[patch.output_file].lines[i] = patch.pre[i]

\* C1 witness: a match at exactly the threshold 0.5 was applied while a
\* located name below the threshold was left alone.
C1_Witness ==
    /\ patch.called
    /\ patch.threshold = Rat(5, 10)
    /\ \E n \in patch.touched : patch.mapping[n].confidence = Rat(5, 10)
    /\ \E n \in patch.located \ patch.touched :
          n \in DOMAIN patch.mapping /\ patch.mapping[n].confidence = Rat(4, 10)

\* C2: in run_demo.main the stages are entered in the one fixed order, each
\* only after the earlier ones succeeded; once the servers failed to start,
\* the baseline run failed, or a DOM snapshot has success=false, there is no
\* mapping, patch or validation and the run is in cleanup.
C2_Order ==
    <<"servers", "baseline", "detect", "dom_v1", "dom_v2", "map", "patch", "validate",
      "extract", "map", "patch", "validate">>
C2_StagesGated ==
    cfg.impl = "demo" =>
        LET st == SelectSeq(hist.stages, LAMBDA x : x # "cleanup")
            gateFailed ==
                \/ ~srv.start_ok /\ pc # "start_v2"
                \/ Len(hist.results) >= 1 /\ ~hist.results[1]
                \/ (dom.v1 = "failed" \/ dom.v2 = "failed") /\ pc \notin {"dom_v2", "dom_check"}
        IN  /\ Len(st) <= Len(C2_Order) /\ st = SubSeq(C2_Order, 1, Len(st))
            /\ \A k \in 1..Len(hist.stages) :
                  hist.stages[k] = "cleanup" => \A j \in k..Len(hist.stages) : hist.stages[j] = "cleanup"
            /\ Entered("baseline") => srv.start_ok
            /\ Entered("detect") => hist.results[1]
            /\ Entered("dom_v1") => ~hist.results[2]
            /\ Entered("map") => dom.v1 = "ok" /\ dom.v2 = "ok"
            /\ Entered("validate") => hist.nPatch >= 1 /\ hist.nMap >= 1
            /\ gateFailed =>
                  /\ hist.nMap = 0 /\ hist.nPatch = 0 /\ ~Entered("validate")
                  /\ Cleaning

\* C2 witness: a demo run that ended after the old-version snapshot failed,
\* with nothing mapped.
C2_Witness ==
    /\ cfg.impl = "demo" /\ pc = "done"
    /\ dom.v1 = "failed" /\ dom.v2 = "ok"
    /\ hist.nMap = 0 /\ Entered("cleanup")

\* C3: at most one self-correction: mapping and patching run at most twice
\* each, the test harness at most four times, extraction at most once, and
\* after the fourth test run (VALIDATE_2) only reporting and cleanup remain.
C3_BoundedRetry ==
    /\ hist.nMap <= 2 /\ hist.nPatch <= 2 /\ hist.nTest <= 4
    /\ Cardinality({k \in 1..Len(hist.stages) : hist.stages[k] = "extract"}) <= 1
    /\ hist.nTest = 4 => pc \in {"report", "stop_v1", "stop_v2", "done"}

\* C3 witness: a run that ended after VALIDATE_2 failed.
C3_Witness ==
    /\ pc = "done" /\ hist.nTest = 4 /\ ~hist.results[4]
    /\ hist.nMap = 2 /\ hist.nPatch = 2

\* C4: every run, of either orchestrator, executes cleanup before it ends,
\* whichever stage it completes or aborts in, an exception raised inside a
\* stage included: a run that has ended has called stop_all_servers, a run
\* ends only from inside the finally block, and every step moves the run
\* strictly forward through the stages, so that no path loops short of
\* cleanup or leaves around it.
StageOrder ==
    <<"start_v1", "start_v2", "baseline", "detect", "dom_v1", "dom_v2", "dom_check",
      "map1", "patch1", "validate1", "extract", "map2", "patch2", "validate2",
      "report", "stop_v1", "stop_v2", "done">>
StageRank(p) == CHOOSE k \in 1..Len(StageOrder) : StageOrder[k] = p
C4_CleanupAlways ==
    /\ [](pc = "done" => Entered("cleanup"))
    /\ [][pc' = "done" => pc \in {"stop_v1", "stop_v2"}]_vars
    /\ [][StageRank(pc') > StageRank(pc)]_vars

\* C4 witness: a run aborted by an exception during DOM capture that ended
\* after cleanup.
C4_Witness ==
    /\ pc = "done" /\ Entered("cleanup")
    /\ dom.v1 = "none" /\ Entered("dom_v1") /\ run.outcome \in {"aborted", "failure"}

\* C5 (as claimed): when the run has ended, no launched server is still
\* tracked or unsignalled and no browser session is still open.
C5_AllReleased ==
    pc = "done" =>
        /\ srv.processes = {}
        /\ srv.launched \subseteq srv.signalled
        /\ browser.open = {}

\* C6 (as claimed): a first patch that reports zero applied updates aborts
\* the run: no validation, no self-correction, no patched file, no success.
C6_ZeroAppliedAborts ==
    (hist.nPatch = 1 /\ patch.called /\ patch.updates_applied = 0) =>
        /\ Cleaning
        /\ ~Entered("validate") /\ ~Entered("extract") /\ hist.nMap = 1
        /\ ~OutFile.exists
        /\ run.outcome # "success"

\* C7: when the regression-detection run exits successfully the run aborts:
\* no DOM capture, no mapping, no patching, and never success.
C7_UnexpectedPassAborts ==
    (Len(hist.results) >= 2 /\ hist.results[2]) =>
        /\ Cleaning
        /\ dom = NoDom /\ browser.opened = {}
        /\ hist.nMap = 0 /\ hist.nPatch = 0 /\ hist.nTest = 2
        /\ ~OutFile.exists
        /\ run.outcome \notin {"success", "none"}

\* C7 witness: a run that ended after the new version's tests passed.
C7_Witness == pc = "done" /\ Len(hist.results) = 2 /\ hist.results[2]

\* C8: when VALIDATE_1 failed and extraction found no name, there is no
\* second mapping, patch or validation, and the run ends in failure.
C8_NotFoundEndsRun ==
    (fctx.called /\ ~fctx.found) =>
        /\ ~hist.results[3]
        /\ hist.nMap = 1 /\ hist.nPatch = 1 /\ hist.nTest = 3
        /\ pc \in {"report", "stop_v1", "stop_v2", "done"}
        /\ pc # "report" => run.outcome = "failure"

\* C8 witness: such a run, ended, its log holding a locate failure whose
\* selector no declared name is registered with.
C8_Witness ==
    /\ pc = "done" /\ fctx.called /\ ~fctx.found /\ run.outcome = "failure"
    /\ \E i \in 1..Len(log) : LineMatches(log[i])

\* C9 (as claimed): whenever the log has a locate-failure entry carrying S
\* and S is registered under N, the result names N with the error message
\* for S; and a name is returned only for the captured literal.
C9_AnyEntryAnyName ==
    fctx.called =>
        /\ \A n \in DOMAIN sel_map :
              (\E i \in 1..Len(log) : \E a, b \in 1..Len(log[i]) :
                    a < b /\ log[i][a] = Marker /\ log[i][b] = Field(sel_map[n]))
              => /\ fctx.found /\ fctx.selector_name = n
                 /\ fctx.error_message = ErrorMessage(sel_map[n])
        /\ fctx.found => fctx.error_message = ErrorMessage(sel_map[fctx.selector_name])

\* C9 (amended): only the leftmost match counts: the first line holding the
\* marker followed by a selector field, and on it the last such field S.  If
\* a name is registered with S the result is the first such name in table
\* order with the error message for S; in every other case it is not found.
C9_FirstEntryFirstName ==
    fctx.called =>
        LET hasMatch(l) == \E a, b \in 1..Len(l) : a < b /\ l[a] = Marker /\ l[b].t = "field"
            rows == {i \in 1..Len(log) : hasMatch(log[i])}
            row == log[CHOOSE i \in rows : \A j \in rows : i <= j]
            S == row[CHOOSE b \in 1..Len(row) :
                        row[b].t = "field" /\ \A c \in 1..Len(row) : row[c].t = "field" => c <= b].v
            regs == {n \in DOMAIN sel_map : sel_map[n] = S}
        IN  IF rows = {} \/ regs = {}
            THEN fctx = NotFound
            ELSE /\ fctx.found
                 /\ fctx.selector_name \in regs
                 /\ \A n \in regs : NameIdx(fctx.selector_name) <= NameIdx(n)
                 /\ fctx.error_message
                      = "Test failed with NoSuchElementException for selector: " \o S

\* C9 witness: the match is on the second line, which carries two fields,
\* and the name of the last one is returned.
C9_Witness ==
    /\ fctx.called /\ fctx.found
    /\ Len(log) = 2 /\ ~LineMatches(log[1]) /\ Len(log[2]) = 3
    /\ sel_map[fctx.selector_name] = log[2][3].v

\* C10 (as claimed): after the second heal, the line written for every name
\* other than the extracted one is the line written by the first heal.
C10_RetryScoped ==
    (hist.nPatch = 2 /\ fctx.found) =>
        \A n \in patch.located \ {fctx.selector_name} :
            OutFile.lines[LocateAssignments(patch.pre).at[n]]
                = hist.heal1.lines[LocateAssignments(patch.pre).at[n]]


\* The inputs of the call that a step makes, and what the filter of lines
\* 42-46 lets through, restated on the rationals.
IsPatchStep == pc = "unit" /\ pcalls' = pcalls + 1
MeetsThreshold(m, t) == m.confidence.n * t.d >= t.n * m.confidence.d /\ m.new_selector # ""
NonePasses(mp, t) == \A n \in DOMAIN mp : ~MeetsThreshold(mp[n], t)
AllPass(mp, t) == \A n \in DOMAIN mp : MeetsThreshold(mp[n], t)

\* C11 (as claimed): a call of batch_update_from_mapping that writes the
\* patched file has made a backup copy of the source before; no file is
\* written in a call in which no backup was made.
C11_BackupBeforeWrite ==
    (patch.called /\ patch.wrote) => patch.backed_up

\* C12: when no match passes the filter, batch_update_from_mapping writes
\* nothing at all (no backup, no source or output file) and reports
\* updates_applied = 0.
C12_EmptyFilterNoWrite ==
    [][(IsPatchStep /\ NonePasses(pin.mapping, pin.threshold)) =>
          /\ fs' = fs
          /\ backups' = backups
          /\ patch'.updates_applied = 0
          /\ ~patch'.wrote /\ ~patch'.has_output]_vars

\* C12 witness: a call with a non-empty mapping of which nothing passed was
\* made, with no backup and no file to show for it.
C12_Witness ==
    /\ patch.called /\ patch.mapping # NoMapping
    /\ NonePasses(patch.mapping, patch.threshold)
    /\ \E n \in DOMAIN patch.mapping : patch.mapping[n].new_selector # ""
    /\ backups = 0 /\ ~fs[OutputPath(patch.file_path)].exists

\* Scenario D: the threshold is 0.9 and every match, at least one, is at 0.8
\* with a selector to write.
ScenarioD(mp, t) ==
    /\ t = Rat(9, 10)
    /\ DOMAIN mp # {}
    /\ \A n \in DOMAIN mp : mp[n].confidence = Rat(8, 10) /\ mp[n].new_selector # ""

\* C13 (as claimed): in scenario D zero updates are applied, the files are
\* left unchanged, and the backup copy of the source is created all the same.
C13_ScenarioDWithBackup ==
    [][(IsPatchStep /\ ScenarioD(pin.mapping, pin.threshold)) =>
          /\ patch'.updates_applied = 0
          /\ fs' = fs
          /\ backups' = backups + 1]_vars

\* C13 (amended): in scenario D zero updates are applied, the files are left
\* unchanged, and no backup copy is created: the backup is made only once
\* the filter has let a match through.
C13_ScenarioDNoBackup ==
    [][(IsPatchStep /\ ScenarioD(pin.mapping, pin.threshold)) =>
          /\ patch'.updates_applied = 0
          /\ fs' = fs
          /\ backups' = backups]_vars

\* C13 witness: a scenario D call was made on a source whose two names are
\* both located.
C13_Witness ==
    /\ patch.called /\ ScenarioD(patch.mapping, patch.threshold)
    /\ DOMAIN patch.mapping = Names /\ patch.located = Names
    /\ patch.updates_applied = 0 /\ ~patch.backed_up

\* The source does not parse, or an assignment in class Locators has a
\* target that is not a plain name.
LocatingFails(lines) ==
    \/ ~AstParse(lines).ok
    \/ \E i \in 1..Len(AstParse(lines).stmts) :
          AstParse(lines).stmts[i].cls = "Locators" /\ AstParse(lines).stmts[i].kind = "attr"

\* C14: when parsing the source fails, or locating the assignments of class
\* Locators raises, batch_update_from_mapping reports updates_applied = 0 and
\* writes nothing to the source or output path.
C14_ParseFailureNoWrite ==
    [][(IsPatchStep /\ LocatingFails(fs[pin.file_path].lines)) =>
          /\ patch'.updates_applied = 0
          /\ fs' = fs
          /\ ~patch'.wrote]_vars

\* C14 witness: a call with a match that passed the filter was made on a
\* source that does not parse, and nothing was written.
C14_Witness ==
    /\ patch.called /\ patch.todo # {} /\ patch.failed
    /\ ~AstParse(patch.pre).ok
    /\ patch.updates_applied = 0 /\ ~fs[OutputPath(patch.file_path)].exists


\* Two lines are the same but for the selector literal, which may differ in
\* value and quoting.
IsLiteral(tok) == tok.t \in {"lit", "tlit"}
SameButLiteral(a, b) ==
    /\ Len(a) = Len(b)
    /\ \A k \in 1..Len(a) : a[k] = b[k] \/ (IsLiteral(a[k]) /\ IsLiteral(b[k]))

\* C15 (as claimed): the written file differs from the source only in the
\* selector literal of the Locators assignments whose name passed the
\* filter: it has the same lines but for those literals, it parses, and its
\* statements are the source's, name and first tuple element kept, with the
\* new selector as second element where the name passed.
C15_OnlyLiteralsDiffer ==
    (patch.called /\ patch.wrote) =>
        LET out == fs[patch.output_file].lines
            pre == patch.pre
            before == AstParse(pre).stmts
            after == AstParse(out)
            passed(st) ==
                /\ st.cls = "Locators" /\ st.kind = "assign"
                /\ st.name \in DOMAIN patch.mapping
                /\ MeetsThreshold(patch.mapping[st.name], patch.threshold)
        IN  /\ Len(out) = Len(pre)
            /\ \A i \in 1..Len(pre) : SameButLiteral(out[i], pre[i])
            /\ after.ok
            /\ Len(after.stmts) = Len(before)
            /\ \A k \in 1..Len(before) :
                  after.stmts[k] =
                      [before[k] EXCEPT !.sel = IF passed(before[k])
                                                THEN patch.mapping[before[k].name].new_selector
                                                ELSE @]

\* C16 (as claimed): the count returned by a first call equals the number of
\* source lines that the written file shows with a different content.
C16_CountsRewrittenLines ==
    (pcalls = 1 /\ patch.called /\ patch.wrote) =>
        patch.updates_applied =
            Cardinality({i \in 1..Len(patch.pre) :
                            fs[patch.output_file].lines[i] # patch.pre[i]})

\* C17: patching is idempotent: a second call with the same mapping, all of
\* it passing the filter, on the same file leaves every file as the first
\* call left it.
C17_SecondCallChangesNothing ==
    [][(IsPatchStep /\ pcalls = 1 /\ AllPass(pin.mapping, pin.threshold)) => fs' = fs]_vars

\* C17 witness: two calls in place with a fully passing mapping, the second
\* of which again replaced the line it had already rewritten.
C17_Witness ==
    /\ pcalls = 2 /\ ~pin.create_new_version
    /\ DOMAIN pin.mapping = Names /\ AllPass(pin.mapping, pin.threshold)
    /\ patch.wrote /\ patch.touched = Names
    /\ \A n \in Names :
          patch.pre[LocateAssignments(patch.pre).at[n]][4] = TLit(pin.mapping[n].new_selector)

\* C18: with create_new_version set, a call never modifies the source file:
\* what it writes goes to a path other than the source path, whatever the
\* source path, and the source holds after the call what it held before.
C18_SourceNeverMutated ==
    [][(IsPatchStep /\ pin.create_new_version) =>
          /\ fs'[pin.file_path] = fs[pin.file_path]
          /\ \A p \in DOMAIN fs : fs'[p] # fs[p] => p # pin.file_path /\ p = patch'.output_file
          /\ patch'.wrote => patch'.output_file # pin.file_path]_vars

\* C18 witness: a call with create_new_version on a source path without a
\* "_v1" part rewrote a line, and the source still holds the old text.
C18_Witness ==
    /\ patch.called /\ pin.create_new_version /\ pin.file_path = <<"page", "_v2">>
    /\ patch.wrote /\ patch.touched # {}
    /\ fs[pin.file_path].lines = patch.pre
    /\ fs[patch.output_file].lines # patch.pre


\* The old selector resolves in the old DOM, and some element of the new
\* DOM scores above 0.3 against its text.
ResolvesInOld(sel) == sel \in DOMAIN cfg.old /\ cfg.old[sel].found
ScoresAboveFloor(sel) ==
    \E i \in 1..Len(cfg.new) :
        LET sc == Score(cfg.old[sel].text, cfg.new, i) IN sc.n * 10 > 3 * sc.d

\* C19: batch_map_selectors is total under failures of the model: the
\* result has an entry for every input name; with the LLM strategy a name
\* whose request failed gets the rule-based mapping of the same inputs, and
\* every other name that was asked for gets the model's own answer.
C19_FailureFallsBackPerName ==
    pcalls = 1 =>
        /\ DOMAIN mapping = DOMAIN pin.selectors_to_map
        /\ cfg.use_ai =>
              \A n \in DOMAIN mapping :
                  LET sel == pin.selectors_to_map[n]
                      ans == pin.llm[n]
                  IN  (ResolvesInOld(sel) /\ ScoresAboveFloor(sel)) =>
                          IF ans.ok
                          THEN /\ mapping[n].original_selector = sel
                               /\ mapping[n].new_selector = ans.new_selector
                               /\ mapping[n].confidence = ans.confidence
                          ELSE mapping[n] = FallbackMapping(sel, cfg.old, cfg.new)

\* C19 witness: of two names sent to the model, the request for A failed
\* and A got the rule-based mapping, while B got the model's answer.
C19_Witness ==
    /\ pcalls = 1 /\ cfg.use_ai /\ DOMAIN mapping = Names
    /\ hist.asked = Names
    /\ ~pin.llm["A"].ok /\ pin.llm["B"].ok
    /\ mapping["A"].new_selector = "[data-testid='x']"
    /\ mapping["B"].new_selector = pin.llm["B"].new_selector

\* C20: for both strategies, when the old selector matches nothing in the
\* old DOM, or no element of the new DOM scores above 0.3, the result is an
\* ordinary SelectorMatch with confidence 0.0 and an empty new_selector, and
\* the model is not asked.
C20_NothingToMapIsZero ==
    pcalls = 1 =>
        \A n \in DOMAIN pin.selectors_to_map :
            LET sel == pin.selectors_to_map[n]
            IN  (~ResolvesInOld(sel) \/ ~ScoresAboveFloor(sel)) =>
                    /\ n \in DOMAIN mapping
                    /\ mapping[n].original_selector = sel
                    /\ mapping[n].new_selector = ""
                    /\ mapping[n].confidence.n = 0
                    /\ n \notin hist.asked

\* C20 witness: with the LLM strategy and a model that would have answered,
\* A's selector does not resolve and the only new element scores exactly
\* 0.3 against B's text; both results are zero-confidence.
C20_Witness ==
    /\ pcalls = 1 /\ cfg.use_ai /\ DOMAIN mapping = Names
    /\ pin.selectors_to_map = [n \in Names |-> OldSel(n)]
    /\ \A n \in Names : pin.llm[n].ok
    /\ ~ResolvesInOld(OldSel("A"))
    /\ ResolvesInOld(OldSel("B"))
    /\ Score(cfg.old[OldSel("B")].text, cfg.new, 1) = Rat(6, 20)
    /\ \A n \in Names : mapping[n].new_selector = "" /\ mapping[n].confidence = Rat(0, 1)
    /\ hist.asked = {}

(***************************************************************************)
(* C21: every SelectorMatch returned by batch_map_selectors has a          *)
(* confidence within [0,1], for either strategy and for every answer of    *)
(* the language model.                                                     *)
(***************************************************************************)
InUnit(c) == RatGeq(c, Rat(0, 1)) /\ RatGeq(Rat(1, 1), c)

C21_ConfidenceInRange ==
    pcalls = 1 => \A n \in DOMAIN mapping : InUnit(mapping[n].confidence)

\* The earliest element, in document order, among those of the new DOM with
\* the highest score against the old text.
EarliestBest(old_text, new_dom) ==
    CHOOSE i \in 1..Len(new_dom) :
        /\ \A j \in 1..Len(new_dom) :
              RatGeq(Score(old_text, new_dom, i), Score(old_text, new_dom, j))
        /\ \A j \in 1..(i - 1) :
              RatGt(Score(old_text, new_dom, i), Score(old_text, new_dom, j))

\* The new DOM with the attributes of element i replaced.
WithAttrs(new_dom, i, testid, id) ==
    [new_dom EXCEPT ![i] = Elem(new_dom[i].tag, testid, id, new_dom[i].text)]

\* C22: the rule-based strategy decides from the single top-ranked
\* candidate: a data-testid gives [data-testid='<value>'] at score x 0.9,
\* else an id gives #<id> at score x 0.8, else the tag name at score x 0.4;
\* so for the same score the test-id result is more confident than the id
\* result, which is more confident than the tag-name result.
C22_RuleBasedFromTopCandidate ==
    (pcalls = 1 /\ ~cfg.use_ai) =>
        \A n \in DOMAIN mapping :
            LET sel == pin.selectors_to_map[n]
                IN  (ResolvesInOld(sel) /\ ScoresAboveFloor(sel)) =>
                    LET top == EarliestBest(cfg.old[sel].text, cfg.new)
                        e == cfg.new[top]
                        sc == Score(cfg.old[sel].text, cfg.new, top)
                        byTestId == FallbackMapping(sel, cfg.old, WithAttrs(cfg.new, top, "t", "i"))
                        byId == FallbackMapping(sel, cfg.old, WithAttrs(cfg.new, top, "", "i"))
                        byTag == FallbackMapping(sel, cfg.old, WithAttrs(cfg.new, top, "", ""))
                    IN  /\ mapping[n].original_selector = sel
                        /\ IF e.testid # ""
                           THEN /\ mapping[n].new_selector = "[data-testid='" \o e.testid \o "']"
                                /\ RatEq(mapping[n].confidence, RatMul(sc, Rat(9, 10)))
                           ELSE IF e.id # ""
                           THEN /\ mapping[n].new_selector = "#" \o e.id
                                /\ RatEq(mapping[n].confidence, RatMul(sc, Rat(8, 10)))
                           ELSE /\ mapping[n].new_selector = e.tag
                                /\ RatEq(mapping[n].confidence, RatMul(sc, Rat(4, 10)))
                        /\ RatGt(byTestId.confidence, byId.confidence)
                        /\ RatGt(byId.confidence, byTag.confidence)

\* C22 witness: A's top candidate carries data-testid x at score 1.0 and A
\* is mapped to [data-testid='x'] at 0.9, while B's top candidate has only
\* an id and is mapped to #y at 0.8.
C22_Witness ==
    /\ pcalls = 1 /\ ~cfg.use_ai /\ DOMAIN mapping = Names
    /\ Len(cfg.new) = 2 /\ cfg.new[1].testid = "x"
    /\ RatEq(Score(TxtA, cfg.new, 1), Rat(1, 1))
    /\ mapping["A"].new_selector = "[data-testid='x']"
    /\ RatEq(mapping["A"].confidence, Rat(9, 10))
    /\ mapping["B"].new_selector = "#y"
    /\ RatEq(mapping["B"].confidence, Rat(8, 10))

\* Element i of the new DOM scores strictly more than 0.3 against the text
\* the old selector resolves to.
AboveFloor(sel, i) ==
    LET sc == Score(cfg.old[sel].text, cfg.new, i) IN sc.n * 10 > 3 * sc.d

\* Element i ranks before element j for the old selector: a higher score,
\* or the same score and an earlier place in the document.
RanksBefore(sel, i, j) ==
    LET si == Score(cfg.old[sel].text, cfg.new, i)
        sj == Score(cfg.old[sel].text, cfg.new, j)
    IN  \/ si.n * sj.d > sj.n * si.d
        \/ si.n * sj.d = sj.n * si.d /\ i < j

\* C23: an element of the new DOM is a candidate iff it scores strictly
\* more than 0.3 against the old element's text; candidates are ordered by
\* descending score, ties by document order; the candidate the rule-based
\* strategy uses, and the first of the at most five listed in a request to
\* the model, is the earliest element among those of maximal score.
C23_CandidateRanking ==
    pcalls = 1 =>
        \A n \in DOMAIN mapping :
            LET sel == pin.selectors_to_map[n]
                above == {i \in 1..Len(cfg.new) : AboveFloor(sel, i)}
            IN  ResolvesInOld(sel) =>
                  /\ cfg.use_ai => (n \in hist.asked <=> above # {})
                  /\ (~cfg.use_ai \/ ~pin.llm[n].ok) =>
                        (mapping[n].new_selector # "" <=> above # {})
                  /\ (above # {} /\ (~cfg.use_ai \/ ~pin.llm[n].ok)) =>
                        mapping[n] =
                            FallbackMapping(sel, cfg.old,
                                            <<cfg.new[EarliestBest(cfg.old[sel].text, cfg.new)]>>)
                  /\ n \in hist.asked =>
                        LET shown == hist.shown[n]
                            listed == {shown[p] : p \in 1..Len(shown)}
                        IN  /\ listed \subseteq above
                            /\ Len(shown) = IF Cardinality(above) < 5
                                            THEN Cardinality(above) ELSE 5
                            /\ Cardinality(listed) = Len(shown)
                            /\ \A p, q \in 1..Len(shown) :
                                  p < q => RanksBefore(sel, shown[p], shown[q])
                            /\ \A i \in listed, j \in above \ listed : RanksBefore(sel, i, j)
                            /\ shown[1] = EarliestBest(cfg.old[sel].text, cfg.new)

\* C23 witness: six elements of the new DOM score above 0.3 against B's
\* text, the third and the fifth both at 1.0; the request lists five of them
\* starting with the third, leaves out the weakest, and, the request having
\* failed, the rule-based result is the third element's tag name.
C23_Witness ==
    /\ pcalls = 1 /\ cfg.use_ai /\ "B" \in hist.asked
    /\ Len(cfg.new) = 6
    /\ \A i \in 1..6 : AboveFloor(OldSel("B"), i)
    /\ RatEq(Score(TxtB, cfg.new, 3), Score(TxtB, cfg.new, 5))
    /\ hist.shown["B"] = <<3, 5, 4, 1, 6>>
    /\ ~pin.llm["B"].ok
    /\ mapping["B"].new_selector = cfg.new[3].tag

\* C24: in batch_map_selectors called with a failure hint for name N, the
\* hint goes to the mapping of N only and every other name is mapped
\* without failure context; each name's result is the one a call for that
\* name alone gives, whatever other names are in the table, and under the
\* rule-based strategy it is a function of the name's selector and the two
\* DOMs alone.
C24_HintForOneNameOnly ==
    pcalls = 1 =>
        /\ \A n \in DOMAIN pin.selectors_to_map :
              n \in hist.hinted <=>
                  (pin.failure_context.found /\ pin.failure_context.selector_name = n)
        /\ \A n \in DOMAIN mapping :
              LET sel == pin.selectors_to_map[n]
              IN  /\ mapping[n] =
                        BatchMapSelectors((n :> sel), cfg.old, cfg.new, pin.failure_context,
                                          cfg.use_ai, (n :> pin.llm[n]))[n]
                  /\ n \notin hist.hinted =>
                        mapping[n] =
                            BatchMapSelectors((n :> sel), cfg.old, cfg.new, NotParsed,
                                              cfg.use_ai, (n :> pin.llm[n]))[n]
                  /\ ~cfg.use_ai => mapping[n] = FallbackMapping(sel, cfg.old, cfg.new)
        /\ \A n, m \in DOMAIN mapping :
              (/\ pin.selectors_to_map[n] = pin.selectors_to_map[m]
               /\ cfg.use_ai => pin.llm[n] = pin.llm[m])
                  => mapping[n] = mapping[m]

\* C24 witness: a call with a hint for A on a table of two names, both sent
\* to the model: only A's request carried the hint.
C24_Witness ==
    /\ pcalls = 1 /\ cfg.use_ai
    /\ DOMAIN pin.selectors_to_map = Names
    /\ pin.failure_context.found /\ pin.failure_context.selector_name = "A"
    /\ hist.asked = Names
    /\ hist.hinted = {"A"}
    /\ pin.llm["B"].ok /\ mapping["B"].new_selector = pin.llm["B"].new_selector

\* C25: fetch_dom never raises to its caller: every call made on an opened
\* browser session returns a snapshot, with success=true or with
\* success=false and an error.
C25_FetchNeverRaises ==
    [][\A v \in {"v1", "v2"} :
          (pc = "dom_" \o v /\ v \in browser'.opened) => dom'[v] \in {"ok", "failed"}]_vars

\* C26: when the first validation fails because the selector the first heal
\* wrote for name N, different from N's original selector, cannot be
\* located, failure extraction maps the literal of the log back to N and
\* the self-correction branch is entered.
C26_WrittenSelectorTracedBack ==
    [][\A N \in Names :
          (/\ pc = "extract"
           /\ N \in patch.touched
           /\ patch.mapping[N].new_selector # sel_map[N]
           /\ log = LogOf(patch.mapping[N].new_selector))
              => (fctx'.found /\ fctx'.selector_name = N /\ pc' = "map2")]_vars

\* C27: the run_demo process ends with a nonzero exit status in every run
\* that does not end in success, and with status zero only when the final
\* validation passed.
C27_ExitStatusTellsSuccess ==
    (pc = "done" /\ cfg.impl = "demo") =>
        /\ run.outcome # "success" => run.exit_code # 0
        /\ run.exit_code = 0 => run.final_test_passed

\* C28: the confidence threshold configured for a run of the healing
\* orchestrator is the one the patcher applies: no selector is written whose
\* match confidence is below the configured value, and every located match
\* at or above it is applied.
C28_ConfiguredThresholdApplied ==
    (cfg.impl = "cli" /\ patch.called /\ ~patch.failed) =>
        \A n \in patch.located \cap DOMAIN patch.mapping :
            n \in patch.touched <=>
                (/\ RatGeq(patch.mapping[n].confidence, cfg.confidence_threshold)
                 /\ patch.mapping[n].new_selector # "")

\* C29: with the rule-based strategy the self-correction pass returns for
\* every name, the extracted one included, the SelectorMatch of the first
\* pass, and the selector file validated by the second validation is the
\* one validated by the first.
C29_RuleBasedRetryRepeats ==
    /\ [][(pc = "map2" /\ ~cfg.use_ai) =>
             /\ DOMAIN mapping' = DOMAIN mapping
             /\ \A n \in DOMAIN mapping : mapping'[n] = mapping[n]]_vars
    /\ []((~cfg.use_ai /\ hist.nPatch = 2) => fs[OutputPath(SrcPath)] = hist.heal1)

\* C29 witness: a rule-based run whose extraction named A went through the
\* second mapping and the second patch, and the second validation ran
\* against a file equal to the one of the first heal, in which A's line had
\* been rewritten.
C29_Witness ==
    /\ ~cfg.use_ai /\ cfg.impl = "demo"
    /\ pc = "report" /\ hist.nPatch = 2 /\ hist.nTest = 4
    /\ fctx.found /\ fctx.selector_name = "A"
    /\ hist.hinted = {"A"}
    /\ mapping["A"].new_selector = "[data-testid='x']"
    /\ "A" \in patch.touched
    /\ fs[OutputPath(SrcPath)] = hist.heal1
    /\ hist.heal1.lines # fs[SrcPath].lines

\* C30: both orchestrators realise the same stage machine; in particular,
\* in either of them a failed first validation is followed by failure
\* extraction, from which the second heal and the second validation start.
C30_SameStageMachine ==
    [][(pc = "validate1" /\ ~run'.first_heal_passed) => pc' = "extract"]_vars

====
